---- MODULE Spec2Model ----
(***************************************************************************)
(* A model of arrangeit: GetArrangement assigns tagged items to            *)
(* capacity-bounded groups.  Two revisions of the search driver are in the *)
(* repository and both are modelled:                                       *)
(*   strategy "a"  src/arrangeit.go        priority search over partial    *)
(*                                         states (statesToTry)            *)
(*   strategy "b"  src/unnamed/part_000    restarts from permutations and  *)
(*                                         hill-climbs over complete states*)
(*                                                                         *)
(* Representation.                                                         *)
(*  - An *Item is a pointer 1..n into itemHeap; the caller's slice `items` *)
(*    is a sequence of such pointers.                                      *)
(*  - Strings (IDs, tag values) are sequences of one-character strings, so *)
(*    that splitting, trimming, sorting and concatenation are computed.    *)
(*  - float64 scores are exact rationals kept as integers scaled by        *)
(*    Scale (the product of the positive per-tag maximum distributions);   *)
(*    NaN, +Inf, -Inf and -math.MaxFloat64 are sentinels.  Rounding of     *)
(*    float64 arithmetic is not modelled.                                  *)
(*  - fnv hashing is modelled as injective on its byte stream: a digest is *)
(*    the byte stream that is hashed.                                      *)
(***************************************************************************)
EXTENDS Integers, Sequences, FiniteSets, TLC

----------------------------------------------------------------------------
(* Bounds of the model *)

MaxItems == 3

MaxGroups == 2

MaxRules == 2

(* The count of the steps of a run stops here *)
MaxSteps == 200

----------------------------------------------------------------------------
(* Generic helpers *)

Range(f) == {f[i] : i \in DOMAIN f}

RECURSIVE SumOver(_, _)
SumOver(S, f) ==
    IF S = {} THEN 0
    ELSE LET x == CHOOSE y \in S : TRUE IN f[x] + SumOver(S \ {x}, f)

RECURSIVE ProductOver(_, _)
ProductOver(S, f) ==
    IF S = {} THEN 1
    ELSE LET x == CHOOSE y \in S : TRUE IN f[x] * ProductOver(S \ {x}, f)

RECURSIVE FlattenSeq(_)
FlattenSeq(ss) == IF ss = <<>> THEN <<>> ELSE Head(ss) \o FlattenSeq(Tail(ss))

(* Lexicographic order on sequences of integers (byte strings). *)
RECURSIVE LexLess(_, _)
LexLess(a, b) ==
    IF b = <<>> THEN FALSE
    ELSE IF a = <<>> THEN TRUE
    ELSE IF Head(a) # Head(b) THEN Head(a) < Head(b)
    ELSE LexLess(Tail(a), Tail(b))

(* sort.Slice by an integer key: pairs <<key, payload>> by ascending key *)
RECURSIVE InsertByKey(_, _)
InsertByKey(x, s) ==
    IF s = <<>> THEN <<x>>
    ELSE IF x[1] < Head(s)[1] THEN <<x>> \o s
    ELSE <<Head(s)>> \o InsertByKey(x, Tail(s))

RECURSIVE SortByKey(_)
SortByKey(s) ==
    IF s = <<>> THEN <<>> ELSE InsertByKey(Head(s), SortByKey(Tail(s)))

(* sort.Slice of byte strings by < *)
RECURSIVE InsertLex(_, _)
InsertLex(x, s) ==
    IF s = <<>> THEN <<x>>
    ELSE IF LexLess(x, Head(s)) THEN <<x>> \o s
    ELSE <<Head(s)>> \o InsertLex(x, Tail(s))

RECURSIVE SortLex(_)
SortLex(s) ==
    IF s = <<>> THEN <<>> ELSE InsertLex(Head(s), SortLex(Tail(s)))

----------------------------------------------------------------------------
(* float64 values *)

NaN == 2100000000

PosInf == 2000000000

NegInf == -2000000000

NegMaxFloat64 == -1000000000

(* The score position of a run that panicked inside a score computation. *)
Panicked == 2100000001

(* a > b on float64: false as soon as either side is NaN. *)
FGt(a, b) == a # NaN /\ b # NaN /\ a > b

(* a <= b on float64 *)
FLe(a, b) == a # NaN /\ b # NaN /\ a <= b

(* a < b on float64 *)
FLt(a, b) == a # NaN /\ b # NaN /\ a < b

(* a + b on float64 *)
FAdd(a, b) ==
    IF a = NaN \/ b = NaN THEN NaN
    ELSE IF a = PosInf THEN (IF b = NegInf THEN NaN ELSE PosInf)
    ELSE IF a = NegInf THEN (IF b = PosInf THEN NaN ELSE NegInf)
    ELSE IF b = PosInf \/ b = NegInf THEN b
    ELSE a + b

----------------------------------------------------------------------------
(* Rule types *)

RuleTypeSameness == "Sameness"

RuleTypeRelationship == "Relationship"

RuleTypeNearness == "Nearness"

TagNames == {"gender", "location"}

----------------------------------------------------------------------------
(* Geometry: parsePoint, getDistribution, getGroupDistribution *)

Digits == <<"0", "1", "2", "3", "4", "5", "6", "7", "8", "9">>

IsDigit(c) == \E d \in DOMAIN Digits : Digits[d] = c

DigitVal(c) == (CHOOSE d \in DOMAIN Digits : Digits[d] = c) - 1

(* strings.Split(str, sep) for a one-character separator *)
RECURSIVE Split(_, _)
Split(str, sep) ==
    IF \A i \in DOMAIN str : str[i] # sep THEN <<str>>
    ELSE LET k == CHOOSE i \in DOMAIN str :
                      str[i] = sep /\ \A j \in 1..(i - 1) : str[j] # sep
         IN <<SubSeq(str, 1, k - 1)>> \o Split(SubSeq(str, k + 1, Len(str)), sep)

(* strings.TrimSpace *)
RECURSIVE TrimSpace(_)
TrimSpace(str) ==
    IF str = <<>> THEN <<>>
    ELSE IF Head(str) = " " THEN TrimSpace(Tail(str))
    ELSE IF str[Len(str)] = " " THEN TrimSpace(SubSeq(str, 1, Len(str) - 1))
    ELSE str

RECURSIVE DecimalValue(_, _)
DecimalValue(ds, acc) ==
    IF ds = <<>> THEN acc ELSE DecimalValue(Tail(ds), 10 * acc + DigitVal(Head(ds)))

(* strconv.ParseFloat restricted to optionally signed integer literals;   *)
(* every other text of the model's value pool is a syntax error.          *)
ParseFloat(str) ==
    LET signed == str # <<>> /\ Head(str) \in {"-", "+"}
        ds     == IF signed THEN Tail(str) ELSE str
        ok     == ds # <<>> /\ \A i \in DOMAIN ds : IsDigit(ds[i])
        mag    == IF ok THEN DecimalValue(ds, 0) ELSE 0
    IN [err |-> ~ok,
        val |-> IF signed /\ Head(str) = "-" THEN 0 - mag ELSE mag]

parsePoint(str) ==
    LET parts == Split(str, ",") IN
    IF Len(parts) # 2 THEN [err |-> TRUE, x |-> 0, y |-> 0]
    ELSE LET px == ParseFloat(TrimSpace(parts[1]))
             py == ParseFloat(TrimSpace(parts[2]))
         IN IF px.err \/ py.err THEN [err |-> TRUE, x |-> 0, y |-> 0]
            ELSE [err |-> FALSE, x |-> px.val, y |-> py.val]

(* The running bounding box of getDistribution over points[2..]. *)
RECURSIVE BoxOver(_, _)
BoxOver(points, box) ==
    IF points = <<>> THEN box
    ELSE LET p == Head(points) IN
         BoxOver(Tail(points),
                 [maxX |-> IF p.x > box.maxX THEN p.x ELSE box.maxX,
                  minX |-> IF p.x < box.minX THEN p.x ELSE box.minX,
                  maxY |-> IF p.y > box.maxY THEN p.y ELSE box.maxY,
                  minY |-> IF p.y < box.minY THEN p.y ELSE box.minY])

(* The width of the box only *)
getDistributionWidth(points) ==
    IF Len(points) = 0 THEN 0
    ELSE LET p0  == points[1]
             box == BoxOver(Tail(points),
                            [maxX |-> p0.x, minX |-> p0.x, maxY |-> p0.y, minY |-> p0.y])
         IN box.maxX - box.minX

getDistribution(points) ==
    IF Len(points) = 0 THEN 0
    ELSE LET p0  == points[1]
             box == BoxOver(Tail(points),
                            [maxX |-> p0.x, minX |-> p0.x, maxY |-> p0.y, minY |-> p0.y])
         IN (box.maxX - box.minX) + (box.maxY - box.minY)

(* The points of a group's items that have a parsed coordinate for tagName *)
GroupPoints(heap, group, tagName) ==
    LET has == SelectSeq(group.Items, LAMBDA it : tagName \in DOMAIN heap[it].nearnessTags)
    IN [k \in DOMAIN has |-> heap[has[k]].nearnessTags[tagName]]

(* One item of the loop of getGroupDistribution that has the point p *)
GroupBoxStep(box, p) ==
    IF box.numPoints > 0
    THEN [maxX |-> IF p.x > box.maxX THEN p.x ELSE box.maxX,
          minX |-> IF p.x < box.minX THEN p.x ELSE box.minX,
          maxY |-> IF p.y > box.maxY THEN p.y ELSE box.maxY,
          minY |-> IF p.y < box.minY THEN p.y ELSE box.minY,
          numPoints |-> box.numPoints + 1]
    ELSE [maxX |-> p.x, minX |-> p.x, maxY |-> p.y, minY |-> p.y,
          numPoints |-> box.numPoints + 1]

(* for _, item := range group.Items: the box and the count of the points *)
RECURSIVE GroupBoxOver(_, _, _, _)
GroupBoxOver(heap, its, tagName, box) ==
    IF its = <<>> THEN box
    ELSE IF tagName \in DOMAIN heap[Head(its)].nearnessTags
         THEN GroupBoxOver(heap, Tail(its), tagName,
                           GroupBoxStep(box, heap[Head(its)].nearnessTags[tagName]))
         ELSE GroupBoxOver(heap, Tail(its), tagName, box)

GroupDistributionOf(box) ==
    IF box.numPoints > 0
    THEN <<(box.maxX - box.minX) + (box.maxY - box.minY), box.numPoints>>
    ELSE <<0, box.numPoints>>

(* Returns <<distribution, numPoints>>. *)
getGroupDistribution(heap, group, tagName) ==
    GroupDistributionOf(GroupBoxOver(heap, group.Items, tagName,
                                     [maxX |-> 0, minX |-> 0, maxY |-> 0, minY |-> 0,
                                      numPoints |-> 0]))

(* The value maxDistributionForTag computes (and then caches) for a tag. *)
maxDistributionForTag(its, heap, tagName) ==
    LET vals   == [k \in DOMAIN its |-> heap[its[k]].Tags[tagName]]
        usable == SelectSeq(vals, LAMBDA v : v # <<>> /\ ~parsePoint(v).err)
        points == [k \in DOMAIN usable |->
                      [x |-> parsePoint(usable[k]).x, y |-> parsePoint(usable[k]).y]]
    IN getDistribution(points)

----------------------------------------------------------------------------
(* Scoring.  r is the runner: [items, heap, rules, ver, maxDist, scale].   *)
(* A finite score f is kept as the integer f * r.scale.                    *)

IsTerminal(s) == Len(s.ItemsNotInGroups) = 0

(* A rule that is scored although its weight is 0 *)
IsActiveAlways(rule) == TRUE

(* if rule.Weight == 0 { continue } *)
IsActive(rule) == rule.Weight # 0

ActiveNearnessTags(rls) ==
    {rls[k].TagName : k \in {j \in DOMAIN rls :
                                rls[j].Type = RuleTypeNearness /\ IsActive(rls[j])}}

(* Occurrences of each distinct non-empty value of the tag in the group *)
tagOccurrencesInGroup(heap, group, tagName) ==
    LET vals == {heap[group.Items[k]].Tags[tagName] : k \in DOMAIN group.Items} \ {<<>>}
    IN [v \in vals |->
           Cardinality({k \in DOMAIN group.Items : heap[group.Items[k]].Tags[tagName] = v})]

(* A reward that grows with the count only *)
SamenessRewardLinear(ver, weight, count) == weight * count

(* What one tag value occurring count times adds, per revision of the formula *)
SamenessReward(ver, weight, count) ==
    IF ver = "a" THEN weight * (count - 1) ELSE weight * count * count

SamenessOfGroup(r, rule, group) ==
    LET occ == tagOccurrencesInGroup(r.heap, group, rule.TagName)
    IN SumOver(DOMAIN occ,
               [v \in DOMAIN occ |-> r.scale * SamenessReward(r.ver, rule.Weight, occ[v])])

(* weight * count * (1 - distribution / maxDist), scaled by scale *)
NearnessReward(weight, count, distribution, maxDist, scale) ==
    IF maxDist = 0
    THEN IF distribution = 0 \/ count = 0 THEN NaN
         ELSE IF weight > 0 THEN NegInf ELSE PosInf
    ELSE weight * count * (maxDist - distribution) * (scale \div maxDist)

NearnessOfGroup(r, rule, group) ==
    LET gd == getGroupDistribution(r.heap, group, rule.TagName)
    IN NearnessReward(rule.Weight, gd[2], gd[1], r.maxDist[rule.TagName], r.scale)

(* score += term, over the terms in order *)
RECURSIVE FSum(_, _)
FSum(terms, score) ==
    IF terms = <<>> THEN score ELSE FSum(Tail(terms), FAdd(score, Head(terms)))

RECURSIVE CurrentScoreFrom(_, _, _, _)
CurrentScoreFrom(r, s, k, score) ==
    IF k > Len(r.rules) THEN score
    ELSE LET rule == r.rules[k] IN
         IF ~IsActive(rule) THEN CurrentScoreFrom(r, s, k + 1, score)
         ELSE IF rule.Type = RuleTypeSameness
              THEN CurrentScoreFrom(r, s, k + 1,
                       FSum([g \in DOMAIN s.Groups |-> SamenessOfGroup(r, rule, s.Groups[g])], score))
         ELSE IF rule.Type = RuleTypeRelationship
              THEN Panicked
         ELSE IF rule.Type = RuleTypeNearness
              THEN CurrentScoreFrom(r, s, k + 1,
                       FSum([g \in DOMAIN s.Groups |-> NearnessOfGroup(r, rule, s.Groups[g])], score))
         ELSE CurrentScoreFrom(r, s, k + 1, score)

CalculateCurrentScore(r, s) == CurrentScoreFrom(r, s, 1, 0)

(* groupsToFill of the heuristic: <<distribution, slotsLeft>> of every     *)
(* group with room, sorted by distribution.                                *)
groupsToFill(r, s, tagName) ==
    LET open == SelectSeq(s.Groups, LAMBDA g : g.MaxSize - Len(g.Items) > 0)
        gtf  == [k \in DOMAIN open |->
                    <<getGroupDistribution(r.heap, open[k], tagName)[1],
                      open[k].MaxSize - Len(open[k].Items)>>]
    IN SortByKey(gtf)

RECURSIVE FillGroups(_, _, _, _, _)
FillGroups(r, rule, gtf, itemsWithPoints, maxScore) ==
    IF ~(itemsWithPoints > 0 /\ gtf # <<>>) THEN maxScore
    ELSE LET g         == Head(gtf)
             numToFill == IF itemsWithPoints >= g[2] THEN g[2] ELSE itemsWithPoints
         IN FillGroups(r, rule, Tail(gtf), itemsWithPoints - numToFill,
                FAdd(maxScore,
                     NearnessReward(rule.Weight, numToFill, g[1],
                                    r.maxDist[rule.TagName], r.scale)))

RECURSIVE MaxPotentialFrom(_, _, _, _)
MaxPotentialFrom(r, s, k, maxScore) ==
    IF maxScore = Panicked \/ k > Len(r.rules) THEN maxScore
    ELSE LET rule == r.rules[k] IN
         IF ~IsActive(rule) THEN MaxPotentialFrom(r, s, k + 1, maxScore)
         ELSE IF rule.Type = RuleTypeSameness
              THEN IF rule.Weight < 0 THEN MaxPotentialFrom(r, s, k + 1, maxScore)
                   ELSE MaxPotentialFrom(r, s, k + 1,
                            FAdd(maxScore,
                                 r.scale * rule.Weight * Len(s.ItemsNotInGroups)))
         ELSE IF rule.Type = RuleTypeRelationship
              THEN Panicked
         ELSE IF rule.Type = RuleTypeNearness
              THEN IF rule.Weight < 0 THEN MaxPotentialFrom(r, s, k + 1, maxScore)
                   ELSE LET itemsWithPoints ==
                                Len(SelectSeq(s.ItemsNotInGroups,
                                      LAMBDA it : rule.TagName \in DOMAIN r.heap[it].nearnessTags))
                        IN MaxPotentialFrom(r, s, k + 1,
                               FillGroups(r, rule, groupsToFill(r, s, rule.TagName),
                                          itemsWithPoints, maxScore))
         ELSE MaxPotentialFrom(r, s, k + 1, maxScore)

CalculateMaxPotentialScore(r, s) ==
    MaxPotentialFrom(r, s, 1, CalculateCurrentScore(r, s))

(* A terminal state with a non-empty group below its MinSize *)
BelowMinSize(s) ==
    \E i \in DOMAIN s.Groups :
        Len(s.Groups[i].Items) > 0 /\ Len(s.Groups[i].Items) < s.Groups[i].MinSize

CalculateScore(r, s) ==
    IF ~IsTerminal(s) THEN CalculateMaxPotentialScore(r, s)
    ELSE IF BelowMinSize(s) THEN NegMaxFloat64
    ELSE CalculateCurrentScore(r, s)

(* s.Score = r.CalculateScore(s) *)
Scored(r, s) == [s EXCEPT !.Score = CalculateScore(r, s)]

----------------------------------------------------------------------------
(* Groups and states *)

(* The state a nil *State stands for *)
NoState == [nil |-> TRUE]

(* The *Group values of a state are fresh objects (ref = 0); ref = k > 0   *)
(* would make the group the caller's k-th *Group itself.                   *)
GroupCopy(g) ==
    [Name |-> g.Name, MinSize |-> g.MinSize, MaxSize |-> g.MaxSize,
     Items |-> g.Items, ref |-> 0]

(* No copy of the groups: group i of the result is group i of s itself,    *)
(* which ref = -i stands for                                               *)
StateCopyShared(s) ==
    [Groups           |-> [i \in DOMAIN s.Groups |-> [s.Groups[i] EXCEPT !.ref = 0 - i]],
     ItemsNotInGroups |-> s.ItemsNotInGroups,
     Score            |-> 0]

(* State.Copy: new containers, Score left at its zero value *)
StateCopy(s) ==
    [Groups           |-> [i \in DOMAIN s.Groups |-> GroupCopy(s.Groups[i])],
     ItemsNotInGroups |-> s.ItemsNotInGroups,
     Score            |-> 0]

ItemIDs(heap, its) == [k \in DOMAIN its |-> heap[its[k]].ID]

(* Group.digest: revision "b" sorts the items by ID before hashing,        *)
(* revision "a" hashes them in the order they are held.                    *)
GroupDigest(ver, heap, g) ==
    IF ver = "a" THEN FlattenSeq(ItemIDs(heap, g.Items))
    ELSE FlattenSeq(SortLex(ItemIDs(heap, g.Items)))

(* State.digest: the group digests, sorted, hashed in that order *)
StateDigest(ver, heap, s) ==
    SortLex([i \in DOMAIN s.Groups |-> GroupDigest(ver, heap, s.Groups[i])])

----------------------------------------------------------------------------
(* validateInput *)

RECURSIVE numSlots(_)
numSlots(gs) == IF gs = <<>> THEN 0 ELSE Head(gs).MaxSize + numSlots(Tail(gs))

(* TRUE when validateInput returns the "bad configuration" error *)
validateInputOffByOne(gs, its) == numSlots(gs) + 1 < Len(its)

validateInputFails(gs, its) == numSlots(gs) < Len(its)

----------------------------------------------------------------------------
(* populateNearnessTagPoints / clearNearnessTagPoints *)

(* The tags an item gets a parsed point for *)
ParsedTagsOf(rls, item) ==
    {t \in ActiveNearnessTags(rls) : item.Tags[t] # <<>> /\ ~parsePoint(item.Tags[t]).err}

populateNearnessTagPoints(rls, its, heap) ==
    [p \in DOMAIN heap |->
        IF p \in Range(its)
        THEN LET add == ParsedTagsOf(rls, heap[p]) IN
             [heap[p] EXCEPT !.nearnessTags =
                 [t \in add \cup DOMAIN heap[p].nearnessTags |->
                     IF t \in add
                     THEN [x |-> parsePoint(heap[p].Tags[t]).x,
                           y |-> parsePoint(heap[p].Tags[t]).y]
                     ELSE heap[p].nearnessTags[t]]]
        ELSE heap[p]]

(* A clearNearnessTagPoints that leaves the parsed points in place *)
clearNearnessTagPointsKept(its, heap) == heap

clearNearnessTagPoints(its, heap) ==
    [p \in DOMAIN heap |->
        IF p \in Range(its) THEN [heap[p] EXCEPT !.nearnessTags = <<>>] ELSE heap[p]]

----------------------------------------------------------------------------
(* getRandomState (revision "b") *)

(* The caller's *Group itself put into the new state *)
NewGroupAliased(k, group) ==
    [Name |-> group.Name, MinSize |-> group.MinSize, MaxSize |-> group.MaxSize,
     Items |-> <<>>, ref |-> k]

(* The caller's group copied into a new state, without items *)
NewGroup(k, group) ==
    [Name |-> group.Name, MinSize |-> group.MinSize, MaxSize |-> group.MaxSize,
     Items |-> <<>>, ref |-> 0]

(* An increment that starts over once the last permutation is reached *)
IncrementPermutationAround(perm, j) ==
    IF \A k \in DOMAIN perm : perm[k] = Len(perm) - k
    THEN [k \in DOMAIN perm |-> 0]
    ELSE [k \in DOMAIN perm |->
             LET carry == \A m \in (k + 1)..Len(perm) : perm[m] = Len(perm) - m
             IN IF ~carry THEN perm[k]
                ELSE IF perm[k] < Len(perm) - k THEN perm[k] + 1 ELSE 0]

(* currentPermutation after the increment loop; j is the 1-based position *)
RECURSIVE IncrementPermutation(_, _)
IncrementPermutation(perm, j) ==
    IF j < 1 THEN perm
    ELSE IF j = 1 \/ perm[j] < Len(perm) - j
         THEN [perm EXCEPT ![j] = perm[j] + 1]
         ELSE IncrementPermutation([perm EXCEPT ![j] = 0], j - 1)

(* No swap at all: every ordering is the input order *)
ApplyPermutationNone(nextPerm, perm, j) == nextPerm

(* nextPerm after the swaps nextPerm[i], nextPerm[i+v] for i = j-1 .. *)
RECURSIVE ApplyPermutation(_, _, _)
ApplyPermutation(nextPerm, perm, j) ==
    IF j > Len(perm) THEN nextPerm
    ELSE ApplyPermutation(
             [nextPerm EXCEPT ![j] = nextPerm[j + perm[j]], ![j + perm[j]] = nextPerm[j]],
             perm, j + 1)

(* The caller's slice after getRandomState permuted its own copy of it *)
ItemsAfterPermute(its, nextPerm) == its

(* No filling up to MinSize: every item is left to the round-robin *)
FillMinSizeSkipped(gs, g, nextPerm, i) == <<gs, i>>

(* "ensure every group has at least MinSize": <<groups, i>> *)
RECURSIVE FillMinSize(_, _, _, _)
FillMinSize(gs, g, nextPerm, i) ==
    IF g > Len(gs) THEN <<gs, i>>
    ELSE IF i < Len(nextPerm) /\ Len(gs[g].Items) < gs[g].MinSize
         THEN FillMinSize([gs EXCEPT ![g].Items = Append(gs[g].Items, nextPerm[i + 1])],
                          g, nextPerm, i + 1)
         ELSE FillMinSize(gs, g + 1, nextPerm, i)

(* One pass of the round-robin for-range over the groups: <<groups, i>> *)
RECURSIVE RoundRobinPass(_, _, _, _)
RoundRobinPass(gs, g, nextPerm, i) ==
    IF g > Len(gs) THEN <<gs, i>>
    ELSE IF Len(gs[g].Items) = gs[g].MaxSize
         THEN RoundRobinPass(gs, g + 1, nextPerm, i)
         ELSE LET gs2 == [gs EXCEPT ![g].Items = Append(gs[g].Items, nextPerm[i + 1])] IN
              IF i + 1 >= Len(nextPerm) THEN <<gs2, i + 1>>
              ELSE RoundRobinPass(gs2, g + 1, nextPerm, i + 1)

(* for i < len(nextPerm) { pass }: a pass that places nothing repeats for ever *)
RECURSIVE RoundRobin(_, _, _)
RoundRobin(gs, nextPerm, i) ==
    IF ~(i < Len(nextPerm)) THEN [hang |-> FALSE, groups |-> gs]
    ELSE LET pass == RoundRobinPass(gs, 1, nextPerm, i) IN
         IF pass[2] = i THEN [hang |-> TRUE, groups |-> gs]
         ELSE RoundRobin(pass[1], nextPerm, pass[2])

(* The state built from the filled groups: scored unless the round-robin  *)
(* never ends                                                              *)
RandomStateOf(r, perm, nextPerm, rr) ==
    [nil   |-> FALSE,
     hang  |-> rr.hang,
     perm  |-> perm,
     items |-> ItemsAfterPermute(r.items, nextPerm),
     state |-> IF rr.hang
               THEN [Groups |-> rr.groups, ItemsNotInGroups |-> <<>>, Score |-> 0]
               ELSE Scored(r, [Groups |-> rr.groups, ItemsNotInGroups |-> <<>>,
                               Score |-> 0])]

RoundRobinFrom(filled, nextPerm) == RoundRobin(filled[1], nextPerm, filled[2])

StateFromPermutation(r, gs, perm, nextPerm) ==
    RandomStateOf(r, perm, nextPerm,
                  RoundRobinFrom(FillMinSize([k \in DOMAIN gs |-> NewGroup(k, gs[k])],
                                             1, nextPerm, 0),
                                 nextPerm))

(* perm is currentPermutation after the increment *)
RandomStateAt(r, gs, currentPermutation, perm) ==
    IF currentPermutation # <<>> /\ perm[1] >= Len(perm)
    THEN [nil |-> TRUE, hang |-> FALSE, perm |-> perm, items |-> r.items,
          state |-> NoState]
    ELSE StateFromPermutation(r, gs, perm, ApplyPermutation(r.items, perm, 1))

(* [nil, hang, perm, items, state]: perm is currentPermutation afterwards, *)
(* <<>> standing for a nil currentPermutation (item lists are non-empty).  *)
getRandomState(r, gs, currentPermutation) ==
    RandomStateAt(r, gs, currentPermutation,
                  IF currentPermutation = <<>>
                  THEN [k \in 1..Len(r.items) |-> 0]
                  ELSE IncrementPermutation(currentPermutation, Len(currentPermutation)))

----------------------------------------------------------------------------
(* getBestNextStateFrom (revision "b") *)

(* The append without the removal from g1 *)
RelocateKeeping(s, g1, i, g2) ==
    [s EXCEPT !.Groups[g2].Items = Append(s.Groups[g2].Items, s.Groups[g1].Items[i])]

(* g2.Items = append(g2.Items, g1.Items[i]); g1.Items[i] is overwritten by *)
(* the last item of g1 and g1 is cut by one.                               *)
Relocate(s, g1, i, g2) ==
    LET a    == s.Groups[g1].Items
        last == Len(a)
        a2   == SubSeq([a EXCEPT ![i] = a[last]], 1, last - 1)
    IN [s EXCEPT !.Groups[g2].Items = Append(s.Groups[g2].Items, a[i]),
                 !.Groups[g1].Items = a2]

(* g1.Items[i], g2.Items[i2] = g2.Items[i2], g1.Items[i] *)
Swap(s, g1, i, g2, i2) ==
    [s EXCEPT !.Groups[g1].Items[i]  = s.Groups[g2].Items[i2],
              !.Groups[g2].Items[i2] = s.Groups[g1].Items[i]]

(* The loop nest in code order: <<gIndex1, i, gIndex2, i2>>, i2 = 0 for the *)
(* branch that moves the item into a group with room.  The loop bounds are *)
(* read from s, which is a copy of sourceState (or restored to one) every  *)
(* time a bound is evaluated.                                              *)
MovesInto(src, g1, i, g2) ==
    IF g1 = g2 THEN <<>>
    ELSE IF Len(src.Groups[g2].Items) < src.Groups[g2].MaxSize THEN << <<g1, i, g2, 0>> >>
    ELSE [i2 \in 1..Len(src.Groups[g2].Items) |-> <<g1, i, g2, i2>>]

MovesOfItem(src, g1, i) ==
    FlattenSeq([g2 \in 1..Len(src.Groups) |-> MovesInto(src, g1, i, g2)])

MovesOfGroup(src, g1) ==
    FlattenSeq([i \in 1..Len(src.Groups[g1].Items) |-> MovesOfItem(src, g1, i)])

Moves(src) == FlattenSeq([g1 \in 1..Len(src.Groups) |-> MovesOfGroup(src, g1)])

(* What follows the move in one iteration of the innermost body; cand is   *)
(* the moved copy with its score.  acc.held says what the locals g1  *)
(* and g2 point into during a swap loop: "s" (the working copy), "best"    *)
(* (the copy that has just become bestOption, while s was replaced by a    *)
(* new copy) or "dropped" (a copy that is no longer referenced).           *)
TryMoved(sourceState, acc, loop, cand) ==
    IF cand.Score = Panicked
    THEN [acc EXCEPT !.panic = TRUE,
                     !.created = acc.created \cup {[cand EXCEPT !.Score = acc.s.Score]}]
    ELSE IF FGt(cand.Score, acc.bestOption.Score)
    THEN [bestOption |-> cand, s |-> StateCopy(sourceState),
          loop |-> loop, held |-> "best",
          panic |-> FALSE, created |-> acc.created \cup {cand}]
    ELSE [bestOption |-> acc.bestOption, s |-> [acc.s EXCEPT !.Score = cand.Score],
          loop |-> loop, held |-> "s",
          panic |-> FALSE, created |-> acc.created \cup {cand}]

(* The swap was made in a copy that s no longer names: s is scored as it is *)
TryStale(sourceState, acc, loop, held, scored, best) ==
    IF scored.Score = Panicked
    THEN [acc EXCEPT !.panic = TRUE, !.created = acc.created \cup {acc.s}]
    ELSE IF FGt(scored.Score, best.Score)
    THEN [bestOption |-> scored, s |-> StateCopy(sourceState),
          loop |-> loop, held |-> "dropped",
          panic |-> FALSE, created |-> acc.created \cup {scored, best}]
    ELSE [bestOption |-> acc.bestOption, s |-> scored,
          loop |-> loop, held |-> held,
          panic |-> FALSE, created |-> acc.created \cup {scored, best}]

HeldIn(acc, loop) == IF acc.loop = loop THEN acc.held ELSE "s"

TryMove(r, sourceState, acc, m) ==
    IF acc.panic THEN acc
    ELSE IF m[4] = 0
    THEN TryMoved(sourceState, acc, <<m[1], m[2], m[3]>>,
                  Scored(r, Relocate(acc.s, m[1], m[2], m[3])))
    ELSE IF HeldIn(acc, <<m[1], m[2], m[3]>>) = "s"
    THEN TryMoved(sourceState, acc, <<m[1], m[2], m[3]>>,
                  Scored(r, Swap(acc.s, m[1], m[2], m[3], m[4])))
    ELSE TryStale(sourceState, acc, <<m[1], m[2], m[3]>>,
                  HeldIn(acc, <<m[1], m[2], m[3]>>),
                  Scored(r, acc.s),
                  IF HeldIn(acc, <<m[1], m[2], m[3]>>) = "best"
                  THEN Swap(acc.bestOption, m[1], m[2], m[3], m[4])
                  ELSE acc.bestOption)

RECURSIVE TryMoves(_, _, _, _)
TryMoves(r, sourceState, acc, moves) ==
    IF moves = <<>> THEN acc
    ELSE TryMoves(r, sourceState, TryMove(r, sourceState, acc, Head(moves)), Tail(moves))

(* [bestOption, panic, created]: created holds every state the call scored *)
getBestNextStateFrom(r, sourceState) ==
    TryMoves(r, sourceState,
             [bestOption |-> sourceState, s |-> StateCopy(sourceState),
              loop |-> <<>>, held |-> "s", panic |-> FALSE, created |-> {}],
             Moves(sourceState))

----------------------------------------------------------------------------
(* getPossibleNextStatesFrom and insertStateToTry (revision "a") *)

(* Places ItemsNotInGroups[0] into group i of a copy of s; indexing an     *)
(* empty ItemsNotInGroups panics                                           *)
PlaceNext(r, s, i) ==
    LET c  == StateCopy(s)
        ns == [c EXCEPT !.ItemsNotInGroups = Tail(c.ItemsNotInGroups),
                        !.Groups[i].Items  = Append(c.Groups[i].Items,
                                                    Head(c.ItemsNotInGroups))]
    IN IF c.ItemsNotInGroups = <<>> THEN [c EXCEPT !.Score = Panicked]
       ELSE Scored(r, ns)

RECURSIVE NextStatesFrom(_, _, _, _)
NextStatesFrom(r, s, i, triedEmptyGroup) ==
    IF i > Len(s.Groups) THEN <<>>
    ELSE IF Len(s.Groups[i].Items) = s.Groups[i].MaxSize
         THEN NextStatesFrom(r, s, i + 1, triedEmptyGroup)
    ELSE IF Len(s.Groups[i].Items) = 0 /\ triedEmptyGroup
         THEN NextStatesFrom(r, s, i + 1, triedEmptyGroup)
    ELSE <<PlaceNext(r, s, i)>>
             \o NextStatesFrom(r, s, i + 1,
                               triedEmptyGroup \/ Len(s.Groups[i].Items) = 0)

(* An expansion that never places into an empty group *)
getPossibleNextStatesFromNoEmpty(r, s) == NextStatesFrom(r, s, 1, TRUE)

getPossibleNextStatesFrom(r, s) == NextStatesFrom(r, s, 1, FALSE)

(* sort.Search(n, f): binary search for the least index (0-based) with f *)
RECURSIVE SortSearch(_, _, _, _)
SortSearch(states, toInsert, i, j) ==
    IF ~(i < j) THEN i
    ELSE LET h == (i + j) \div 2 IN
         IF ~FLt(states[h + 1].Score, toInsert.Score)
         THEN SortSearch(states, toInsert, h + 1, j)
         ELSE SortSearch(states, toInsert, i, h)

insertStateToTry(states, toInsert) ==
    LET i == SortSearch(states, toInsert, 0, Len(states)) IN
    IF i < Len(states)
    THEN SubSeq(states, 1, i) \o <<toInsert>> \o SubSeq(states, i + 1, Len(states))
    ELSE Append(states, toInsert)

----------------------------------------------------------------------------
(* The inputs the model draws *)

ValueM == <<"m">>

ValueF == <<"f">>

Location00 == <<"0", ",", "0">>

Location12 == <<"1", ",", " ", "2">>

Location30 == <<"3", ",", "0">>

LocationBad == <<"x", ",", "1">>

(* Item IDs are byte strings, unique, and not in sorted order *)
ItemID(k) == IF k % 2 = 1 THEN <<k + 1>> ELSE <<k - 1>>

MakeItem(k, gender, location) ==
    [ID |-> ItemID(k),
     Tags |-> [t \in TagNames |-> IF t = "gender" THEN gender ELSE location],
     nearnessTags |-> <<>>]

MakeRule(tagName, type, weight) == [TagName |-> tagName, Type |-> type, Weight |-> weight]

(* A caller's group; held is what the caller left in its Items *)
MakeGroup(k, shape, held) ==
    [Name |-> <<"Group", k>>, MinSize |-> shape[1], MaxSize |-> shape[2],
     Items |-> held, ref |-> k]

(* Family 1: every group list over the shapes, items alternating in tags *)
LocationCycle == <<Location00, Location12, Location00, Location30>>

CapacityItem(k) ==
    MakeItem(k, IF k % 2 = 1 THEN ValueM ELSE ValueF,
             LocationCycle[((k - 1) % Len(LocationCycle)) + 1])

GroupShapes == {<<0, 1>>, <<2, 1>>, <<0, 3>>, <<2, 3>>}

CapacityGroupLists ==
    {[k \in DOMAIN shapes |-> MakeGroup(k, shapes[k], <<>>)] :
        shapes \in UNION {[1..c -> GroupShapes] : c \in 0..MaxGroups}}

CapacityRuleLists ==
    {<<>>,
     <<MakeRule("gender", RuleTypeSameness, 1)>>,
     <<MakeRule("gender", RuleTypeRelationship, 1)>>,
     <<MakeRule("location", RuleTypeNearness, 1)>>}

(* Family 2: every rule list over the pool, a few item and group lists *)
RulePool ==
    {MakeRule("gender", RuleTypeSameness, 2),
     MakeRule("gender", RuleTypeSameness, -1),
     MakeRule("gender", RuleTypeSameness, 0),
     MakeRule("location", RuleTypeNearness, 1),
     MakeRule("location", RuleTypeNearness, 0),
     MakeRule("gender", RuleTypeRelationship, 1),
     MakeRule("gender", RuleTypeRelationship, 0)}

RuleLists == UNION {[1..c -> RulePool] : c \in 0..MaxRules}

RuleItemLists ==
    {<<MakeItem(1, ValueM, Location00), MakeItem(2, ValueF, Location12)>>,
     <<MakeItem(1, ValueM, Location00), MakeItem(2, ValueM, Location00),
       MakeItem(3, ValueF, Location12)>>,
     <<MakeItem(1, ValueM, LocationBad), MakeItem(2, <<>>, <<>>)>>,
     <<MakeItem(1, ValueM, Location00), MakeItem(2, ValueF, Location30),
       MakeItem(3, ValueM, Location12)>>}

RuleGroupLists ==
    {<<MakeGroup(1, <<0, 2>>, <<>>), MakeGroup(2, <<0, 2>>, <<>>)>>,
     <<MakeGroup(1, <<1, 3>>, <<1>>), MakeGroup(2, <<1, 3>>, <<>>)>>}

(* Family 3: one item more than the other families have, so that the       *)
(* frontier of revision "a" still holds states when a terminal state has   *)
(* been reached; the second group list is the one of TestBasic             *)
FrontierItems == [k \in 1..(MaxItems + 1) |-> CapacityItem(k)]

FrontierGroupLists ==
    {<<MakeGroup(1, <<0, 3>>, <<>>), MakeGroup(2, <<0, 1>>, <<>>)>>,
     <<MakeGroup(1, <<1, 2>>, <<>>), MakeGroup(2, <<1, 2>>, <<>>)>>}

(* The rule lists of family 1 and a Nearness rule of negative weight *)
FrontierRuleLists ==
    CapacityRuleLists \cup {<<MakeRule("location", RuleTypeNearness, -1)>>}

(* Family 4: four items with a coordinate each, as in TestNearness, one    *)
(* group with room beside a group that its MinSize keeps full, so that a   *)
(* climb has several swaps with the same full group to choose from; in the *)
(* second group list every feasible arrangement is two moves away from the *)
(* states getRandomState builds                                            *)
ClimbItems ==
    <<MakeItem(1, ValueM, Location12), MakeItem(2, ValueF, Location00),
      MakeItem(3, ValueM, Location30), MakeItem(4, ValueF, Location12)>>

ClimbGroupLists ==
    {<<MakeGroup(1, <<1, 2>>, <<>>), MakeGroup(2, <<3, 3>>, <<>>)>>,
     <<MakeGroup(1, <<2, 4>>, <<>>), MakeGroup(2, <<4, 4>>, <<>>)>>}

----------------------------------------------------------------------------
(* The run of GetArrangement as a state machine *)

VARIABLES
    items,                     \* the caller's []*Item: pointers into itemHeap
    itemHeap,                  \* the Item objects
    rules,                     \* the caller's rules
    groups,                    \* the caller's *Group objects
    callerBefore,              \* items, itemHeap and groups as they were at the call
    strategy,                  \* which revision of the driver runs: "a" or "b"
    ctxDone,                   \* ctx.Done() is closed
    pc,                        \* where run() is
    bestState,                 \* r.bestState
    statesToTry,               \* r.statesToTry
    statesTried,               \* r.statesTried: set of digests
    currentPermutation,        \* r.currentPermutation, <<>> for nil
    maxDistributionByTagName,  \* r.maxDistributionByTagName
    next,                      \* the local next of run()
    result,                    \* the []*Group returned: [nil, Groups]
    err,                       \* the error returned, "" for nil
    created,                   \* the states the last step built or scored
    hist                       \* what has happened so far in the run

vars == <<items, itemHeap, rules, groups, callerBefore, strategy, ctxDone, pc,
          bestState, statesToTry, statesTried, currentPermutation,
          maxDistributionByTagName, next, result, err, created, hist>>

inputVars == <<items, rules, groups, callerBefore, strategy>>

ErrBadConfiguration == "bad configuration"

ErrNoWorkableState == "failed to discover any workable state"

NilGroups == [nil |-> TRUE, Groups |-> <<>>]

(* The runner as the scoring functions read it *)
Runner ==
    LET md == [t \in TagNames |-> maxDistributionForTag(items, itemHeap, t)] IN
    [items   |-> items,
     heap    |-> itemHeap,
     rules   |-> rules,
     ver     |-> strategy,
     maxDist |-> md,
     scale   |-> ProductOver(ActiveNearnessTags(rules),
                             [t \in TagNames |-> IF md[t] > 0 THEN md[t] ELSE 1])]

InitRun ==
    /\ ctxDone = FALSE
    /\ pc = "start"
    /\ bestState = NoState
    /\ statesToTry = <<>>
    /\ statesTried = {}
    /\ currentPermutation = <<>>
    /\ maxDistributionByTagName = <<>>
    /\ next = NoState
    /\ result = NilGroups
    /\ err = ""
    /\ created = {}
    /\ hist = [searched |-> FALSE, parsed |-> FALSE, adopted |-> {},
               feasible |-> FALSE, lateSteps |-> 0, steps |-> 0, dealt |-> <<>>,
               climbed |-> <<>>]

InitInputs(heapSeq, gs, rs, st) ==
    /\ items = [k \in DOMAIN heapSeq |-> k]
    /\ itemHeap = heapSeq
    /\ rules = rs
    /\ groups = gs
    /\ callerBefore = [items |-> [k \in DOMAIN heapSeq |-> k], heap |-> heapSeq, groups |-> gs]
    /\ strategy = st

InitCapacity ==
    \E n \in 1..MaxItems, gs \in CapacityGroupLists, rs \in CapacityRuleLists,
       st \in {"a", "b"} :
        InitInputs([k \in 1..n |-> CapacityItem(k)], gs, rs, st)

InitRules ==
    \E its \in RuleItemLists, gs \in RuleGroupLists, rs \in RuleLists, st \in {"a", "b"} :
        InitInputs(its, gs, rs, st)

InitFrontier ==
    \E gs \in FrontierGroupLists, rs \in FrontierRuleLists, st \in {"a", "b"} :
        InitInputs(FrontierItems, gs, rs, st)

InitClimb ==
    \E gs \in ClimbGroupLists, st \in {"a", "b"} :
        InitInputs(ClimbItems, gs, <<MakeRule("location", RuleTypeNearness, 1)>>, st)

Init == (InitCapacity \/ InitRules \/ InitFrontier \/ InitClimb) /\ InitRun

----------------------------------------------------------------------------
(* Bookkeeping shared by the steps *)

(* quitting(): the select on ctx.Done() *)
quitting(done) == done

IsFeasibleTerminal(s) == IsTerminal(s) /\ ~BelowMinSize(s)

(* The caller's groups after a step: a state group with ref = k is the     *)
(* caller's k-th group, so what the step stored in it is seen by the caller *)
CallerGroupsAfter(gs, states) ==
    [k \in DOMAIN gs |->
        LET hit == {<<s, i>> \in UNION {{<<s, i>> : i \in DOMAIN s.Groups} : s \in states} :
                        s.Groups[i].ref = k}
        IN IF hit = {} THEN gs[k]
           ELSE LET h == CHOOSE x \in hit : TRUE
                IN [gs[k] EXCEPT !.Items = h[1].Groups[h[2]].Items]]

(* The Nearness tags whose rule a score computation reaches *)
RECURSIVE ReachedNearnessTags(_, _)
ReachedNearnessTags(rls, k) ==
    IF k > Len(rls) THEN {}
    ELSE IF ~IsActive(rls[k]) THEN ReachedNearnessTags(rls, k + 1)
    ELSE IF rls[k].Type = RuleTypeRelationship THEN {}
    ELSE IF rls[k].Type = RuleTypeNearness
         THEN {rls[k].TagName} \cup ReachedNearnessTags(rls, k + 1)
    ELSE ReachedNearnessTags(rls, k + 1)

(* r.maxDistributionByTagName once the states have been scored *)
CacheAfter(states) ==
    LET ran  == \E s \in states :
                    Len(s.Groups) > 0 /\ (~IsTerminal(s) \/ ~BelowMinSize(s))
        tags == IF ran THEN ReachedNearnessTags(rules, 1) ELSE {}
    IN [t \in DOMAIN maxDistributionByTagName \cup tags |-> Runner.maxDist[t]]

(* hist after the terminal states among `taken` became next, bestState or  *)
(* a candidate                                                             *)
Note(taken, late) ==
    LET terminal == {s \in taken : IsTerminal(s)} IN
    [hist EXCEPT !.searched  = TRUE,
                 !.adopted   = @ \cup {s.Score : s \in terminal},
                 !.feasible  = @ \/ \E s \in terminal : IsFeasibleTerminal(s),
                 !.lateSteps = IF late /\ @ < 1 THEN @ + 1 ELSE @,
                 !.steps     = IF @ < MaxSteps THEN @ + 1 ELSE @]

----------------------------------------------------------------------------
(* run(): validation and pre-processing *)

ValidateFail ==
    /\ pc = "start"
    /\ validateInputFails(groups, items)
    /\ pc' = "done"
    /\ result' = NilGroups
    /\ err' = ErrBadConfiguration
    /\ UNCHANGED <<inputVars, itemHeap, ctxDone, bestState, statesToTry, statesTried,
                   currentPermutation, maxDistributionByTagName, next, created, hist>>

ValidateOk ==
    /\ pc = "start"
    /\ ~validateInputFails(groups, items)
    /\ pc' = "populate"
    /\ UNCHANGED <<inputVars, itemHeap, ctxDone, bestState, statesToTry, statesTried,
                   currentPermutation, maxDistributionByTagName, next, result, err,
                   created, hist>>

Populate ==
    /\ pc = "populate"
    /\ itemHeap' = populateNearnessTagPoints(rules, items, itemHeap)
    /\ hist' = [hist EXCEPT !.parsed =
                   \E p \in DOMAIN itemHeap : itemHeap'[p].nearnessTags # <<>>]
    /\ pc' = IF strategy = "a" THEN "a_init" ELSE "b_first"
    /\ UNCHANGED <<inputVars, ctxDone, bestState, statesToTry, statesTried,
                   currentPermutation, maxDistributionByTagName, next, result, err,
                   created>>

(* ctx is cancelled or its deadline passes *)
Cancel ==
    /\ pc \in {"start", "a_loop", "b_loop"}
    /\ ~ctxDone
    /\ ctxDone' = TRUE
    /\ UNCHANGED <<inputVars, itemHeap, pc, bestState, statesToTry, statesTried,
                   currentPermutation, maxDistributionByTagName, next, result, err,
                   created, hist>>

(* return r.bestState.Groups, nil (or the "no workable state" error of     *)
(* revision "a"), then the deferred clearNearnessTagPoints                 *)
Return ==
    /\ pc = "return"
    /\ pc' = "done"
    /\ IF strategy = "a" /\ bestState = NoState
       THEN result' = NilGroups /\ err' = ErrNoWorkableState
       ELSE result' = [nil |-> FALSE, Groups |-> bestState.Groups] /\ err' = ""
    /\ itemHeap' = clearNearnessTagPoints(items, itemHeap)
    /\ created' = {}
    /\ UNCHANGED <<inputVars, ctxDone, bestState, statesToTry, statesTried,
                   currentPermutation, maxDistributionByTagName, next, hist>>

----------------------------------------------------------------------------
(* run() of revision "b" *)

(* next = r.getRandomState() and what follows it: g is what the call gave, *)
(* best the bestState to keep, seen the states scored earlier in the step  *)
RandomStateStep(g, best, tried, seen, late, searched) ==
    LET made == IF g.nil THEN {} ELSE {g.state}
        ok   == ~g.nil /\ ~g.hang /\ g.state.Score # Panicked
    IN
    /\ currentPermutation' = g.perm
    /\ items' = g.items
    /\ groups' = CallerGroupsAfter(groups, made)
    /\ statesTried' = tried
    /\ created' = seen \cup made
    /\ maxDistributionByTagName' = CacheAfter(seen \cup made)
    /\ pc' = IF g.nil THEN "return"
             ELSE IF g.hang THEN "hung"
             ELSE IF g.state.Score = Panicked THEN "panic"
             ELSE "b_loop"
    /\ next' = IF ok THEN g.state ELSE IF g.nil THEN NoState ELSE next
    /\ bestState' = IF ok /\ best = NoState THEN g.state ELSE best
    /\ itemHeap' = IF ~g.nil /\ ~g.hang /\ g.state.Score = Panicked
                   THEN clearNearnessTagPoints(items, itemHeap) ELSE itemHeap
    /\ hist' = [Note((IF ok THEN {g.state} ELSE {}) \cup (IF best = NoState THEN {} ELSE {best}),
                     late)
                    EXCEPT !.dealt = IF ok THEN Append(@, [perm |-> g.perm, state |-> g.state])
                                     ELSE @,
                           !.climbed = @ \o searched]
    /\ UNCHANGED <<rules, callerBefore, strategy, ctxDone, statesToTry, result, err>>

(* next := r.getRandomState(); r.bestState = next *)
B_First ==
    /\ pc = "b_first"
    /\ RandomStateStep(getRandomState(Runner, groups, currentPermutation),
                       NoState, statesTried, {}, FALSE, <<>>)

(* if r.quitting() { break } *)
B_Quit ==
    /\ pc = "b_loop"
    /\ quitting(ctxDone)
    /\ pc' = "return"
    /\ created' = {}
    /\ UNCHANGED <<inputVars, itemHeap, ctxDone, bestState, statesToTry, statesTried,
                   currentPermutation, maxDistributionByTagName, next, result, err, hist>>

(* The digest of next is in statesTried: take the next permutation *)
B_Skip ==
    /\ pc = "b_loop"
    /\ ~quitting(ctxDone)
    /\ StateDigest(strategy, itemHeap, next) \in statesTried
    /\ RandomStateStep(getRandomState(Runner, groups, currentPermutation),
                       bestState, statesTried, {}, FALSE, <<>>)

(* A climb that leaves the digest of next out of statesTried *)
ClimbStepForgetting(b) ==
    /\ b.panic \/ FGt(b.bestOption.Score, next.Score)
    /\ statesTried' = statesTried
    /\ created' = b.created
    /\ maxDistributionByTagName' = CacheAfter(b.created)
    /\ groups' = CallerGroupsAfter(groups, b.created)
    /\ pc' = IF b.panic THEN "panic" ELSE "b_loop"
    /\ next' = IF b.panic THEN next ELSE b.bestOption
    /\ itemHeap' = IF b.panic THEN clearNearnessTagPoints(items, itemHeap) ELSE itemHeap
    /\ hist' = [Note(IF b.panic THEN {} ELSE {b.bestOption}, ctxDone)
                    EXCEPT !.climbed = Append(@, StateDigest(strategy, itemHeap, next))]
    /\ UNCHANGED <<items, rules, callerBefore, strategy, ctxDone, bestState, statesToTry,
                   currentPermutation, result, err>>

(* bestOption scores higher than next: keep climbing from it *)
ClimbStep(b) ==
    /\ b.panic \/ FGt(b.bestOption.Score, next.Score)
    /\ statesTried' = statesTried \cup {StateDigest(strategy, itemHeap, next)}
    /\ created' = b.created
    /\ maxDistributionByTagName' = CacheAfter(b.created)
    /\ groups' = CallerGroupsAfter(groups, b.created)
    /\ pc' = IF b.panic THEN "panic" ELSE "b_loop"
    /\ next' = IF b.panic THEN next ELSE b.bestOption
    /\ itemHeap' = IF b.panic THEN clearNearnessTagPoints(items, itemHeap) ELSE itemHeap
    /\ hist' = [Note(IF b.panic THEN {} ELSE {b.bestOption}, ctxDone)
                    EXCEPT !.climbed = Append(@, StateDigest(strategy, itemHeap, next))]
    /\ UNCHANGED <<items, rules, callerBefore, strategy, ctxDone, bestState, statesToTry,
                   currentPermutation, result, err>>

B_Climb ==
    /\ pc = "b_loop"
    /\ ~quitting(ctxDone)
    /\ StateDigest(strategy, itemHeap, next) \notin statesTried
    /\ ClimbStep(getBestNextStateFrom(Runner, next))

(* next is a local maximum: record it if it beats bestState, then restart *)
LocalMaxStep(b) ==
    /\ ~b.panic
    /\ ~FGt(b.bestOption.Score, next.Score)
    /\ RandomStateStep(getRandomState(Runner, groups, currentPermutation),
                       IF FGt(next.Score, bestState.Score) THEN next ELSE bestState,
                       statesTried \cup {StateDigest(strategy, itemHeap, next)},
                       b.created, ctxDone, <<StateDigest(strategy, itemHeap, next)>>)

B_LocalMax ==
    /\ pc = "b_loop"
    /\ ~quitting(ctxDone)
    /\ StateDigest(strategy, itemHeap, next) \notin statesTried
    /\ LocalMaxStep(getBestNextStateFrom(Runner, next))

----------------------------------------------------------------------------
(* run() of revision "a" *)

(* A group of initialState: the caller's sizes, Items nil *)
InitialGroup(k, group) ==
    [Name |-> group.Name, MinSize |-> group.MinSize, MaxSize |-> group.MaxSize,
     Items |-> <<>>, ref |-> 0]

(* initialState.Score = r.CalculateScore(initialState), then the insert *)
InitStep(initialState) ==
    /\ created' = {initialState}
    /\ maxDistributionByTagName' = CacheAfter({initialState})
    /\ groups' = CallerGroupsAfter(groups, {initialState})
    /\ pc' = IF initialState.Score = Panicked THEN "panic" ELSE "a_loop"
    /\ statesToTry' = IF initialState.Score = Panicked THEN statesToTry
                      ELSE <<initialState>>
    /\ itemHeap' = IF initialState.Score = Panicked
                   THEN clearNearnessTagPoints(items, itemHeap) ELSE itemHeap
    /\ hist' = Note(IF initialState.Score = Panicked THEN {} ELSE {initialState}, FALSE)
    /\ UNCHANGED <<items, rules, callerBefore, strategy, ctxDone, bestState, statesTried,
                   currentPermutation, next, result, err>>

A_Init ==
    /\ pc = "a_init"
    /\ InitStep(Scored(Runner,
                       [Groups |-> [k \in DOMAIN groups |-> InitialGroup(k, groups[k])],
                        ItemsNotInGroups |-> items,
                        Score |-> 0]))

(* for len(r.statesToTry) > 0 *)
A_Exhausted ==
    /\ pc = "a_loop"
    /\ Len(statesToTry) = 0
    /\ pc' = "return"
    /\ created' = {}
    /\ UNCHANGED <<inputVars, itemHeap, ctxDone, bestState, statesToTry, statesTried,
                   currentPermutation, maxDistributionByTagName, next, result, err, hist>>

(* case <-r.ctx.Done(): break mainLoop *)
A_Quit ==
    /\ pc = "a_loop"
    /\ Len(statesToTry) > 0
    /\ quitting(ctxDone)
    /\ pc' = "return"
    /\ created' = {}
    /\ UNCHANGED <<inputVars, itemHeap, ctxDone, bestState, statesToTry, statesTried,
                   currentPermutation, maxDistributionByTagName, next, result, err, hist>>

(* The state popped off the end of statesToTry *)
Popped == statesToTry[Len(statesToTry)]

(* if r.bestState != nil && next.Score <= r.bestState.Score *)
CannotBeat(nextState, best) == best # NoState /\ FLe(nextState.Score, best.Score)

(* The popped state cannot beat bestState: continue *)
A_Prune ==
    /\ pc = "a_loop"
    /\ Len(statesToTry) > 0
    /\ ~quitting(ctxDone)
    /\ CannotBeat(Popped, bestState)
    /\ next' = Popped
    /\ statesToTry' = SubSeq(statesToTry, 1, Len(statesToTry) - 1)
    /\ created' = {}
    /\ hist' = Note({}, ctxDone)
    /\ UNCHANGED <<inputVars, itemHeap, ctxDone, pc, bestState, statesTried,
                   currentPermutation, maxDistributionByTagName, result, err>>

(* The body of the loop over the children: [best, toTry] *)
RECURSIVE Absorb(_, _, _, _)
Absorb(children, nextState, best, toTry) ==
    IF children = <<>> THEN [best |-> best, toTry |-> toTry]
    ELSE LET s == Head(children) IN
         IF IsTerminal(s)
         THEN Absorb(Tail(children), nextState,
                     IF best = NoState THEN s
                     ELSE IF FGt(s.Score, best.Score) THEN s ELSE best,
                     toTry)
         ELSE IF CannotBeat(nextState, best)
              THEN Absorb(Tail(children), nextState, best, toTry)
              ELSE Absorb(Tail(children), nextState, best, insertStateToTry(toTry, s))

HasPanicked(children) == \E k \in DOMAIN children : children[k].Score = Panicked

(* for _, s := range nextStates { ... } and what it leaves behind *)
ExpandResult(children, panic, after) ==
    /\ next' = Popped
    /\ created' = Range(children)
    /\ maxDistributionByTagName' = CacheAfter(Range(children))
    /\ groups' = CallerGroupsAfter(groups, Range(children))
    /\ pc' = IF panic THEN "panic" ELSE "a_loop"
    /\ bestState' = IF panic THEN bestState ELSE after.best
    /\ statesToTry' = IF panic THEN SubSeq(statesToTry, 1, Len(statesToTry) - 1)
                      ELSE after.toTry
    /\ itemHeap' = IF panic THEN clearNearnessTagPoints(items, itemHeap) ELSE itemHeap
    /\ hist' = Note(IF panic THEN {} ELSE Range(children), ctxDone)
    /\ UNCHANGED <<items, rules, callerBefore, strategy, ctxDone, statesTried,
                   currentPermutation, result, err>>

ExpandStep(children) ==
    ExpandResult(children, HasPanicked(children),
                 Absorb(children, Popped, bestState,
                        SubSeq(statesToTry, 1, Len(statesToTry) - 1)))

(* The popped state is expanded *)
A_Expand ==
    /\ pc = "a_loop"
    /\ Len(statesToTry) > 0
    /\ ~quitting(ctxDone)
    /\ ~CannotBeat(Popped, bestState)
    /\ ExpandStep(getPossibleNextStatesFrom(Runner, Popped))

----------------------------------------------------------------------------

Next ==
    \/ ValidateFail
    \/ ValidateOk
    \/ Populate
    \/ Cancel
    \/ Return
    \/ B_First
    \/ B_Quit
    \/ B_Skip
    \/ B_Climb
    \/ B_LocalMax
    \/ A_Init
    \/ A_Exhausted
    \/ A_Quit
    \/ A_Prune
    \/ A_Expand

Spec == Init /\ [][Next]_vars

TypeOK ==
    /\ pc \in {"start", "populate", "a_init", "a_loop", "b_first", "b_loop",
               "return", "done", "panic", "hung"}
    /\ strategy \in {"a", "b"}
    /\ ctxDone \in BOOLEAN
    /\ err \in {"", ErrBadConfiguration, ErrNoWorkableState}

----------------------------------------------------------------------------
(* Properties *)

(* Every state the run holds: the ones the last step built or scored, the  *)
(* frontier, next and bestState                                            *)
HeldStates ==
    created \cup Range(statesToTry) \cup ({next, bestState} \ {NoState})

(* How often item p occurs in the groups and ItemsNotInGroups of s *)
Occurrences(s, p) ==
    SumOver(DOMAIN s.Groups,
            [g \in DOMAIN s.Groups |->
                Cardinality({k \in DOMAIN s.Groups[g].Items : s.Groups[g].Items[k] = p})])
    + Cardinality({k \in DOMAIN s.ItemsNotInGroups : s.ItemsNotInGroups[k] = p})

OccursOnce(s) == \A p \in Range(callerBefore.items) : Occurrences(s, p) = 1

(* C1: partition invariant.  In every state the search holds, every input  *)
(* item occurs exactly once across the groups' Items and ItemsNotInGroups; *)
(* in a returned arrangement every item is in exactly one group.           *)
C1_Partition ==
    /\ \A s \in HeldStates : OccursOnce(s)
    /\ (pc = "done" /\ ~result.nil) =>
           OccursOnce([Groups |-> result.Groups, ItemsNotInGroups |-> <<>>])

(* A run that returned an arrangement spreading the items over two groups  *)
(* after a hill-climbing step moved an item                                *)
C1_Witness ==
    /\ pc = "done"
    /\ ~result.nil
    /\ strategy = "b"
    /\ statesTried # {}
    /\ Len(items) = 3
    /\ \A g \in DOMAIN result.Groups : result.Groups[g].Items # <<>>
    /\ Len(result.Groups) = 2

WithinMaxSize(gs) == \A g \in DOMAIN gs : Len(gs[g].Items) <= gs[g].MaxSize

(* C2: capacity upper bound.  For every input that passes validation,      *)
(* every group of every state the search holds and of the returned         *)
(* arrangement has at most MaxSize items.                                  *)
C2_CapacityUpperBound ==
    /\ \A s \in HeldStates : WithinMaxSize(s.Groups)
    /\ (pc = "done" /\ ~result.nil) => WithinMaxSize(result.Groups)

(* C3: whenever groups are returned without an error, every non-empty      *)
(* returned group holds at least its MinSize items.                        *)
C3_MinSizeRespected ==
    (pc = "done" /\ err = "" /\ ~result.nil) =>
        \A g \in DOMAIN result.Groups :
            Len(result.Groups[g].Items) = 0
            \/ Len(result.Groups[g].Items) >= result.Groups[g].MinSize

(* C4: a search that ended without having found a feasible terminal state  *)
(* returns the "failed to discover any workable state" error and no        *)
(* groups, and that error is returned only then.                           *)
C4_NoWorkableStateError ==
    (pc = "done" /\ hist.searched) =>
        /\ (err = ErrNoWorkableState) <=> ~hist.feasible
        /\ (err = ErrNoWorkableState) => result.nil

(* C5: when the MaxSize values sum to less than the number of items, the   *)
(* run ends with the configuration error and nil groups and nothing else   *)
(* has happened: no state was built or scored, no coordinate was parsed    *)
(* into an item, bestState is unset.                                       *)
C5_ValidateFirst ==
    numSlots(callerBefore.groups) < Len(callerBefore.items) =>
        /\ pc \in {"start", "done"}
        /\ ~hist.searched
        /\ ~hist.parsed
        /\ created = {}
        /\ bestState = NoState
        /\ next = NoState
        /\ statesToTry = <<>>
        /\ \A p \in DOMAIN itemHeap : itemHeap[p].nearnessTags = <<>>
        /\ pc = "done" => (err = ErrBadConfiguration /\ result.nil)

(* The call has returned the configuration error for three items and two   *)
(* groups of one slot each                                                 *)
C5_Witness ==
    /\ pc = "done"
    /\ err = ErrBadConfiguration
    /\ result.nil
    /\ Len(items) = 3
    /\ Len(groups) = 2
    /\ numSlots(groups) = 2

(* C6: once the context is done the driver takes no further expansion or   *)
(* climb step after its next loop check, what it returns scores at least   *)
(* as high as every terminal state it had adopted as its current state or  *)
(* recorded as a candidate, and it returns no error if a feasible terminal *)
(* state had been reached.                                                 *)
C6_CancelReturnsBestSoFar ==
    (pc = "done" /\ ctxDone /\ hist.searched) =>
        /\ hist.lateSteps = 0
        /\ ~result.nil => \A sc \in hist.adopted : ~FGt(sc, bestState.Score)
        /\ hist.feasible => err = ""

HasActiveRelationship ==
    \E k \in DOMAIN rules : rules[k].Type = RuleTypeRelationship /\ rules[k].Weight # 0

(* C7: with a Relationship rule of non-zero weight among the rules, a run  *)
(* that passed validation aborts in a score computation: the call never    *)
(* returns an arrangement, and the only return there is is the one of the  *)
(* failed validation.                                                      *)
C7_RelationshipAborts ==
    (HasActiveRelationship /\ pc = "done") =>
        (result.nil /\ err = ErrBadConfiguration)

(* The rules with the zero-weight rules removed *)
WithoutInert(rls) == SelectSeq(rls, LAMBDA rule : rule.Weight # 0)

(* C8: a rule of weight 0 is inert.  Every state scores the same with the  *)
(* zero-weight rules present as with them removed, a run whose only        *)
(* Relationship rules have weight 0 does not abort, and an item gets a     *)
(* parsed coordinate only for the tag of a Nearness rule of non-zero       *)
(* weight.                                                                 *)
C8_ZeroWeightInert ==
    /\ LET r == Runner IN
       \A s \in HeldStates :
           CalculateScore(r, s) = CalculateScore([r EXCEPT !.rules = WithoutInert(rules)], s)
    /\ ~HasActiveRelationship => pc # "panic"
    /\ \A p \in DOMAIN itemHeap :
           \A t \in DOMAIN itemHeap[p].nearnessTags :
               \E k \in DOMAIN rules :
                   /\ rules[k].Type = RuleTypeNearness
                   /\ rules[k].TagName = t
                   /\ rules[k].Weight # 0

(* A search is under way with a zero-weight Relationship rule and a        *)
(* zero-weight Nearness rule over items that carry coordinates             *)
C8_Witness ==
    /\ pc \in {"a_loop", "b_loop"}
    /\ HeldStates # {}
    /\ \E k \in DOMAIN rules :
           rules[k].Type = RuleTypeRelationship /\ rules[k].Weight = 0
    /\ \E k \in DOMAIN rules :
           rules[k].Type = RuleTypeNearness /\ rules[k].Weight = 0
    /\ \E p \in DOMAIN itemHeap : ~parsePoint(itemHeap[p].Tags["location"]).err

(* The rearrangements of a sequence *)
Rearrangements(seq) ==
    {[i \in DOMAIN seq |-> seq[pi[i]]] :
        pi \in {f \in [DOMAIN seq -> DOMAIN seq] : \A i, j \in DOMAIN seq : f[i] = f[j] => i = j}}

(* The sets of item IDs the groups of s hold, as a bag *)
GroupIDSets(s) ==
    LET idSet(g) == {itemHeap[s.Groups[g].Items[k]].ID : k \in DOMAIN s.Groups[g].Items}
    IN [ids \in {idSet(g) : g \in DOMAIN s.Groups} |->
           Cardinality({g \in DOMAIN s.Groups : idSet(g) = ids})]

(* C9: digest invariance.  Rearranging the items inside a group or the     *)
(* groups of a state leaves State.digest unchanged, and two states that    *)
(* put the same sets of item IDs into groups have the same digest.         *)
C9_DigestInvariance ==
    \A s \in HeldStates :
        /\ \A g \in DOMAIN s.Groups :
               \A its \in Rearrangements(s.Groups[g].Items) :
                   StateDigest(strategy, itemHeap, [s EXCEPT !.Groups[g].Items = its])
                       = StateDigest(strategy, itemHeap, s)
        /\ \A gs \in Rearrangements(s.Groups) :
               StateDigest(strategy, itemHeap, [s EXCEPT !.Groups = gs])
                   = StateDigest(strategy, itemHeap, s)
        /\ \A s2 \in HeldStates :
               GroupIDSets(s2) = GroupIDSets(s) =>
                   StateDigest(strategy, itemHeap, s2) = StateDigest(strategy, itemHeap, s)

(* C10: the call leaves its inputs alone and returns copies.  After the    *)
(* call, with or without an error, the caller's items slice, the items and *)
(* the caller's groups (their Items included) are as they were before it,  *)
(* and a returned list has one new group per input group, in the same      *)
(* order, with the same Name, MinSize and MaxSize.                         *)
C10_InputsUntouched ==
    pc = "done" =>
        /\ items = callerBefore.items
        /\ itemHeap = callerBefore.heap
        /\ groups = callerBefore.groups
        /\ ~result.nil =>
               /\ Len(result.Groups) = Len(groups)
               /\ \A k \in DOMAIN groups :
                      /\ result.Groups[k].Name = groups[k].Name
                      /\ result.Groups[k].MinSize = groups[k].MinSize
                      /\ result.Groups[k].MaxSize = groups[k].MaxSize
                      /\ result.Groups[k].ref = 0

(* An arrangement was returned for groups the caller passed with an item   *)
(* already in one of them, the returned group holding something else       *)
C10_Witness ==
    /\ pc = "done"
    /\ ~result.nil
    /\ err = ""
    /\ \E k \in DOMAIN groups :
           groups[k].Items # <<>> /\ result.Groups[k].Items # groups[k].Items

(* C11: the parsed-coordinate cache is scoped to the run.  Once the call   *)
(* has finished, by a return or by the abort on a Relationship rule, no    *)
(* input item has a parsed point left and every item's ID and Tags are the *)
(* ones it came with.                                                      *)
C11_CacheScopedToRun ==
    pc \in {"done", "panic"} =>
        \A p \in DOMAIN itemHeap :
            /\ itemHeap[p].nearnessTags = <<>>
            /\ itemHeap[p].ID = callerBefore.heap[p].ID
            /\ itemHeap[p].Tags = callerBefore.heap[p].Tags

(* A run that had parsed a coordinate into an item has finished: with an   *)
(* arrangement, or by the abort                                            *)
C11_Witness ==
    /\ hist.parsed
    /\ \/ pc = "done" /\ ~result.nil
       \/ pc = "panic"

(* The runner as it scores during the search, whatever the step: the items *)
(* carry their parsed points                                               *)
PopulatedRunner ==
    LET heap == populateNearnessTagPoints(rules, items, itemHeap)
        md   == [t \in TagNames |-> maxDistributionForTag(items, heap, t)]
    IN [items   |-> items,
        heap    |-> heap,
        rules   |-> rules,
        ver     |-> strategy,
        maxDist |-> md,
        scale   |-> ProductOver(ActiveNearnessTags(rules),
                                [t \in TagNames |-> IF md[t] > 0 THEN md[t] ELSE 1])]

(* The complete arrangement that puts item p into group f[p] *)
ArrangementOf(f) ==
    [Groups |-> [k \in DOMAIN groups |->
                    [Name |-> groups[k].Name, MinSize |-> groups[k].MinSize,
                     MaxSize |-> groups[k].MaxSize,
                     Items |-> SelectSeq(items, LAMBDA p : f[p] = k), ref |-> 0]],
     ItemsNotInGroups |-> <<>>,
     Score |-> 0]

(* The complete arrangements of the input that respect MaxSize and, in     *)
(* every non-empty group, MinSize                                          *)
FeasibleArrangements ==
    {t \in {ArrangementOf(f) : f \in [Range(items) -> DOMAIN groups]} :
        WithinMaxSize(t.Groups) /\ ~BelowMinSize(t)}

(* C12: a run that was never cancelled returns, whenever the input has a   *)
(* feasible complete arrangement, a feasible arrangement whose score is    *)
(* the maximum over all feasible complete arrangements.                    *)
C12_ReturnsMaximum ==
    (pc = "done" /\ ~ctxDone /\ FeasibleArrangements # {}) =>
        /\ ~result.nil
        /\ LET returned == [Groups |-> result.Groups, ItemsNotInGroups |-> <<>>, Score |-> 0]
           IN /\ WithinMaxSize(returned.Groups) /\ ~BelowMinSize(returned)
              /\ \A t \in FeasibleArrangements :
                     ~FGt(CalculateCurrentScore(PopulatedRunner, t),
                          CalculateCurrentScore(PopulatedRunner, returned))

(* n! *)
RECURSIVE Factorial(_)
Factorial(n) == IF n <= 1 THEN 1 ELSE n * Factorial(n - 1)

(* g^0 + ... + g^n *)
RECURSIVE PowerSum(_, _)
PowerSum(g, n) == IF n = 0 THEN 1 ELSE 1 + g * PowerSum(g, n - 1)

(* C13 as stated: a run that passed validation never ends up where it can  *)
(* no longer return: stuck in the round-robin distribution, or aborted.    *)
C13_AlwaysAbleToReturn == pc \notin {"hung", "panic"}

(* C13, amended: a run that passed validation and is not cancelled ends,   *)
(* by returning or by the abort on a Relationship rule of non-zero weight. *)
(* It is never stuck in the round-robin distribution, and the number of    *)
(* its loop iterations is bounded by the input: at most n! restarts and    *)
(* one hill-climb step per distinct assignment in revision "b", one        *)
(* expansion per partial assignment in revision "a".                       *)
C13_Terminates ==
    /\ pc # "hung"
    /\ pc = "panic" => HasActiveRelationship
    /\ hist.steps <= IF strategy = "a"
                     THEN 1 + PowerSum(Len(groups), Len(items) - 1)
                     ELSE 1 + Factorial(Len(items))
                            + (PowerSum(Len(groups), Len(items))
                               - PowerSum(Len(groups), Len(items) - 1))

(* A run of revision "b" over three items that was never cancelled has     *)
(* returned after its permutations were exhausted                          *)
C13_Witness ==
    /\ pc = "done"
    /\ ~ctxDone
    /\ strategy = "b"
    /\ Len(items) = 3
    /\ currentPermutation # <<>> /\ currentPermutation[1] >= 3
    /\ Cardinality(statesTried) >= 2

(* Every complete arrangement of the input, feasible or not *)
Arrangements == {ArrangementOf(f) : f \in [Range(items) -> DOMAIN groups]}

(* C14: monotonic feasibility rejection.  Whatever the rules, a terminal   *)
(* state with a non-empty group below its MinSize scores less than or      *)
(* equal to every terminal state that has none.                            *)
C14_FeasibilityRejection ==
    pc \in {"a_loop", "b_loop"} =>
        \A u \in Arrangements : \A t \in Arrangements :
            (BelowMinSize(u) /\ ~BelowMinSize(t)) =>
                FLe(CalculateScore(PopulatedRunner, u), CalculateScore(PopulatedRunner, t))

(* How many items of the group carry value v under the tag *)
CountOf(group, tagName, v) ==
    Cardinality({k \in DOMAIN group.Items : itemHeap[group.Items[k]].Tags[tagName] = v})

(* The sum, over the Sameness rules of non-zero weight, the groups of s    *)
(* and the distinct non-empty values of the rule's tag in the group, of    *)
(* Reward(weight, count)                                                   *)
SamenessTotal(s, Reward(_, _)) ==
    SumOver(DOMAIN rules,
        [k \in DOMAIN rules |->
            IF rules[k].Type # RuleTypeSameness \/ rules[k].Weight = 0 THEN 0
            ELSE SumOver(DOMAIN s.Groups,
                [g \in DOMAIN s.Groups |->
                    LET vals == {itemHeap[s.Groups[g].Items[i]].Tags[rules[k].TagName] :
                                     i \in DOMAIN s.Groups[g].Items} \ {<<>>}
                    IN SumOver(vals,
                           [v \in vals |->
                               Reward(rules[k].Weight,
                                      CountOf(s.Groups[g], rules[k].TagName, v))])])])

(* The rules that are not Sameness rules *)
WithoutSameness(rls) == SelectSeq(rls, LAMBDA rule : rule.Type # RuleTypeSameness)

(* CalculateScore of s is the Sameness total under Reward plus what the    *)
(* other rules contribute                                                  *)
ScoreIsSamenessPlusRest(r, s, Reward(_, _)) ==
    CalculateScore(r, s)
        = FAdd(r.scale * SamenessTotal(s, Reward),
               CalculateCurrentScore([r EXCEPT !.rules = WithoutSameness(rules)], s))

(* The feasible terminal states the run holds, their scores computed: no   *)
(* Relationship rule aborts a score computation                            *)
FeasibleHeld ==
    IF HasActiveRelationship THEN {}
    ELSE {s \in HeldStates : IsTerminal(s) /\ ~BelowMinSize(s)}

(* C15 as stated: in a feasible terminal state every Sameness rule of      *)
(* non-zero weight w contributes w * c * c per group and distinct          *)
(* non-empty tag value occurring c times, in both revisions.               *)
C15_SamenessSquared ==
    LET r == PopulatedRunner IN
    \A s \in FeasibleHeld : ScoreIsSamenessPlusRest(r, s, LAMBDA w, c : w * c * c)

(* C15, amended: the contribution per group and distinct non-empty value   *)
(* occurring c >= 1 times is w * c * c in src/unnamed/part_000 and         *)
(* w * (c - 1) in src/arrangeit.go; items without the tag contribute       *)
(* nothing and the contributions of all active rules are added.            *)
C15_SamenessPerRevision ==
    LET r == PopulatedRunner IN
    \A s \in FeasibleHeld :
        IF strategy = "a"
        THEN ScoreIsSamenessPlusRest(r, s, LAMBDA w, c : w * (c - 1))
        ELSE ScoreIsSamenessPlusRest(r, s, LAMBDA w, c : w * c * c)

(* The best state of a run of src/arrangeit.go, about to be returned, in   *)
(* which a group holds two items of one value of the tag of an active      *)
(* Sameness rule                                                           *)
C15_Witness ==
    /\ pc = "return"
    /\ strategy = "a"
    /\ bestState # NoState
    /\ IsTerminal(bestState) /\ ~BelowMinSize(bestState)
    /\ \E k \in DOMAIN rules :
           /\ rules[k].Type = RuleTypeSameness /\ rules[k].Weight # 0
           /\ \E g \in DOMAIN bestState.Groups :
                  \E i \in DOMAIN bestState.Groups[g].Items :
                      LET v == itemHeap[bestState.Groups[g].Items[i]].Tags[rules[k].TagName]
                      IN v # <<>> /\ CountOf(bestState.Groups[g], rules[k].TagName, v) >= 2

(* A step of the main loop of revision "a" that removed a state from       *)
(* statesToTry: next' is the state removed                                 *)
PopStep ==
    /\ pc = "a_loop"
    /\ pc' \in {"a_loop", "panic"}
    /\ ctxDone' = ctxDone
    /\ Len(statesToTry) > 0

(* C16: priority order of revision "a".  At every iteration of the main    *)
(* loop the state removed from statesToTry has the highest heuristic Score *)
(* of all the states then in statesToTry: none of them scores higher.      *)
C16_PopsHighest ==
    [][PopStep => \A k \in DOMAIN statesToTry :
                      ~FGt(statesToTry[k].Score, next'.Score)]_vars

(* C17: pruning in revision "a".  Once a best terminal state exists, no    *)
(* state whose heuristic Score is less than or equal to the best terminal  *)
(* Score is expanded, and no such state is inserted into statesToTry.      *)
C17_Pruning ==
    [][(PopStep /\ bestState # NoState) =>
          /\ created' # {} => ~FLe(next'.Score, bestState.Score)
          /\ \A k \in DOMAIN statesToTry' :
                 statesToTry'[k] \notin Range(statesToTry) =>
                     ~FLe(statesToTry'[k].Score, bestState'.Score)]_vars

(* The terminal states obtained from s by placing its unplaced items, in   *)
(* order, into groups with room                                            *)
RECURSIVE Completions(_)
Completions(s) ==
    IF IsTerminal(s) THEN {s}
    ELSE UNION {Completions([s EXCEPT
                                !.ItemsNotInGroups = Tail(s.ItemsNotInGroups),
                                !.Groups[g].Items =
                                    Append(s.Groups[g].Items, Head(s.ItemsNotInGroups))]) :
                   g \in {i \in DOMAIN s.Groups :
                              Len(s.Groups[i].Items) < s.Groups[i].MaxSize}}

(* C18: the heuristic never underestimates.  For every non-terminal state  *)
(* the search holds and every terminal state obtained from it by placing   *)
(* its unplaced items into groups with room, CalculateMaxPotentialScore of *)
(* the state is not less than CalculateCurrentScore of the terminal state, *)
(* whatever the weights of the Sameness and Nearness rules.                *)
C18_NeverUnderestimates ==
    ~HasActiveRelationship =>
        \A s \in {h \in HeldStates : ~IsTerminal(h)} :
            \A t \in Completions(s) :
                ~FLt(CalculateMaxPotentialScore(PopulatedRunner, s),
                     CalculateCurrentScore(PopulatedRunner, t))

(* The terminal states reached from s by getPossibleNextStatesFrom alone,  *)
(* nothing pruned                                                          *)
RECURSIVE TerminalsFrom(_, _)
TerminalsFrom(r, s) ==
    IF IsTerminal(s) THEN {s}
    ELSE LET children == getPossibleNextStatesFrom(r, s)
         IN UNION {TerminalsFrom(r, children[k]) : k \in DOMAIN children}

(* Every complete arrangement within MaxSize has its CalculateScore among  *)
(* the terminal states reached from the initial state                      *)
ExpansionLosesNothing ==
    \A t \in {c \in Arrangements : WithinMaxSize(c.Groups)} :
        \E u \in TerminalsFrom(PopulatedRunner, statesToTry[1]) :
            CalculateScore(PopulatedRunner, u) = CalculateScore(PopulatedRunner, t)

(* Revision "a" has just put the initial state into statesToTry *)
AtInitialState ==
    /\ strategy = "a"
    /\ pc = "a_loop"
    /\ hist.steps = 1
    /\ ~HasActiveRelationship

(* All groups have the same MinSize and the same MaxSize *)
SameSizes ==
    \A j \in DOMAIN groups : \A k \in DOMAIN groups :
        groups[j].MinSize = groups[k].MinSize /\ groups[j].MaxSize = groups[k].MaxSize

(* C19 as stated: for every input that passes validation, every complete   *)
(* arrangement has the CalculateScore of some terminal state reachable     *)
(* through getPossibleNextStatesFrom.                                      *)
C19_EmptyGroupsInterchangeable == AtInitialState => ExpansionLosesNothing

(* C19, amended: the same, for the inputs whose groups all have the same   *)
(* MinSize and the same MaxSize.                                           *)
C19_EqualGroupsInterchangeable == (AtInitialState /\ SameSizes) => ExpansionLosesNothing

(* The initial state of an input of three or more items and two groups    *)
(* of equal sizes, both empty: only the first is tried                     *)
C19_Witness ==
    /\ AtInitialState
    /\ SameSizes
    /\ Len(groups) = 2
    /\ Len(items) >= 3
    /\ rules # <<>>

(* The ordering of the items the k-th state getRandomState returned was    *)
(* built from                                                              *)
OrderingOf(k) == ApplyPermutation(items, hist.dealt[k].perm, 1)

(* The call of getRandomState after the one that left permutation perm *)
CallAfter(perm) == getRandomState(PopulatedRunner, groups, perm)

(* C20: permutation enumeration.  The states getRandomState returns are    *)
(* built from pairwise different orderings of the items, the first being   *)
(* the input order, and no state is returned twice (the state returned     *)
(* last differs, in its ordering and in its groups, from every state       *)
(* returned before); when the call has returned nil, exactly n! states     *)
(* were returned before, and the calls after it return nil too.            *)
C20_PermutationEnumeration ==
    (strategy = "b" /\ ~HasActiveRelationship) =>
        /\ \A j \in 1..(Len(hist.dealt) - 1) :
               /\ OrderingOf(j) # OrderingOf(Len(hist.dealt))
               /\ hist.dealt[j].state.Groups # hist.dealt[Len(hist.dealt)].state.Groups
        /\ hist.dealt # <<>> =>
               /\ Range(OrderingOf(Len(hist.dealt))) = Range(items)
               /\ OrderingOf(1) = items
        /\ Len(hist.dealt) <= Factorial(Len(items))
        /\ (pc = "return" /\ ~ctxDone) =>
               /\ Len(hist.dealt) = Factorial(Len(items))
               /\ CallAfter(currentPermutation).nil
               /\ CallAfter(CallAfter(currentPermutation).perm).nil

(* A run over three items was handed nil by getRandomState after six states *)
C20_Witness ==
    /\ strategy = "b"
    /\ pc = "return"
    /\ ~ctxDone
    /\ Len(items) = 3
    /\ Len(hist.dealt) = 6

(* The sum of the MinSize of the caller's groups *)
MinSizeSum == SumOver(DOMAIN groups, [k \in DOMAIN groups |-> groups[k].MinSize])

(* C21: the initial assignment fills minimums first.  In every state       *)
(* getRandomState returned, if there are at least as many items as the sum *)
(* of the MinSize then every group holds at least MinSize items, and no    *)
(* group holds more than its MinSize while another holds fewer than its    *)
(* MinSize.                                                                *)
C21_FillsMinimumsFirst ==
    \A k \in DOMAIN hist.dealt :
        LET gs == hist.dealt[k].state.Groups IN
        /\ Len(items) >= MinSizeSum =>
               \A g \in DOMAIN gs : Len(gs[g].Items) >= gs[g].MinSize
        /\ ~\E g \in DOMAIN gs, h \in DOMAIN gs :
               /\ Len(gs[g].Items) > gs[g].MinSize
               /\ Len(gs[h].Items) < gs[h].MinSize

(* getRandomState returned a state in which a later group was filled to    *)
(* its MinSize of two while the first group, which has no minimum, got     *)
(* nothing                                                                 *)
C21_Witness ==
    /\ strategy = "b"
    /\ hist.dealt # <<>>
    /\ Len(groups) = 2
    /\ groups[1].MinSize = 0
    /\ groups[2].MinSize = 2
    /\ Len(items) = 2
    /\ Len(hist.dealt[1].state.Groups[1].Items) = 0
    /\ Len(hist.dealt[1].state.Groups[2].Items) = 2

(* The states one relocate or one swap away from s, as the loops of        *)
(* getBestNextStateFrom enumerate them                                     *)
NeighboursOf(s) ==
    {IF m[4] = 0 THEN Relocate(s, m[1], m[2], m[3]) ELSE Swap(s, m[1], m[2], m[3], m[4]) :
        m \in Range(Moves(s))}

(* b is s when no neighbour in nb scores strictly higher than s, and       *)
(* otherwise one of nb, with a current Score, that no member of nb beats   *)
IsBestNeighbour(r, s, b, nb) ==
    IF \A n \in nb : ~FGt(CalculateScore(r, n), CalculateScore(r, s))
    THEN b = s
    ELSE /\ \E n \in nb : n.Groups = b.Groups /\ n.ItemsNotInGroups = b.ItemsNotInGroups
         /\ \A n \in nb : ~FGt(CalculateScore(r, n), CalculateScore(r, b))
         /\ b.Score = CalculateScore(r, b)

(* C22: best-neighbour step.  getBestNextStateFrom(next) returns next      *)
(* itself when no single relocate or swap scores strictly higher, and      *)
(* otherwise a single-move neighbour whose CalculateScore is the maximum   *)
(* over all the neighbours and is in its Score field.                      *)
C22_BestNeighbour ==
    (strategy = "b" /\ pc = "b_loop" /\ ~HasActiveRelationship) =>
        IsBestNeighbour(Runner, next, getBestNextStateFrom(Runner, next).bestOption,
                        NeighboursOf(next))

(* A step of run() that calls getBestNextStateFrom(next) *)
ClimbCall ==
    /\ strategy = "b"
    /\ pc = "b_loop"
    /\ statesTried' # statesTried

(* Every group of every state in states is a fresh object or holds what    *)
(* the same group of src holds                                             *)
LeftAlone(src, states) ==
    \A c \in states : \A k \in DOMAIN c.Groups :
        c.Groups[k].ref = 0 \/ c.Groups[k].Items = src.Groups[k].Items

LoopStep ==
    /\ strategy = "b"
    /\ pc = "b_loop"
    /\ ~ctxDone
    /\ ~ctxDone'

(* C24: visited-set discipline of revision "b".  getBestNextStateFrom is   *)
(* never called on a state whose digest is in statesTried, a call adds the *)
(* digest and nothing leaves statesTried, so that no digest is searched    *)
(* twice in a run; when the digest of next is in statesTried already, no   *)
(* search is made and next becomes the state of the next permutation (or   *)
(* the loop ends when there is none).                                      *)
C24_VisitedSet ==
    [][LoopStep =>
          LET d == StateDigest(strategy, itemHeap, next) IN
          /\ statesTried \subseteq statesTried'
          /\ d \notin statesTried =>
                 /\ hist'.climbed = Append(hist.climbed, d)
                 /\ d \notin Range(hist.climbed)
                 /\ d \in statesTried'
          /\ d \in statesTried =>
                 /\ hist'.climbed = hist.climbed
                 /\ currentPermutation' # currentPermutation
                 /\ \/ pc' = "return" /\ Len(hist'.dealt) = Len(hist.dealt)
                    \/ /\ Len(hist'.dealt) = Len(hist.dealt) + 1
                       /\ next' = hist'.dealt[Len(hist'.dealt)].state]_vars

(* A state whose digest was searched before came up again: the digests     *)
(* searched so far are fewer than the states getRandomState has dealt      *)
C24_Witness ==
    /\ strategy = "b"
    /\ pc = "b_loop"
    /\ Len(hist.climbed) >= 2
    /\ StateDigest(strategy, itemHeap, next) \in Range(hist.climbed)
    /\ Len(hist.dealt) >= 2

(* distribution / maxDist lies in [0, 1]; a maxDist of 0 makes the         *)
(* quotient NaN (0 / 0) or +Inf, which do not                              *)
RatioInUnitInterval(distribution, maxDist) ==
    /\ maxDist > 0
    /\ 0 <= distribution
    /\ distribution <= maxDist

(* C25: the distribution ratio never exceeds 1.  In every state the run    *)
(* holds and for every tag of an active Nearness rule, the spread of any   *)
(* group's items is at most maxDistributionForTag of the tag, and the      *)
(* group's ratio lies in [0, 1].                                           *)
C25_RatioAtMostOne ==
    (pc \notin {"start", "populate", "done", "panic"}) =>
        LET r == Runner IN
        \A s \in HeldStates : \A t \in ActiveNearnessTags(rules) :
            \A g \in DOMAIN s.Groups :
                /\ getGroupDistribution(r.heap, s.Groups[g], t)[1] <= r.maxDist[t]
                /\ RatioInUnitInterval(getGroupDistribution(r.heap, s.Groups[g], t)[1],
                                       r.maxDist[t])

(* The greatest and the least member of a non-empty set of numbers *)
MaxOf(S) == CHOOSE m \in S : \A v \in S : v <= m

MinOf(S) == CHOOSE m \in S : \A v \in S : m <= v

(* (maxX - minX) + (maxY - minY) over the points of a sequence, 0 for none *)
SpreadOf(points) ==
    IF points = <<>> THEN 0
    ELSE (MaxOf({points[k].x : k \in DOMAIN points}) - MinOf({points[k].x : k \in DOMAIN points}))
         + (MaxOf({points[k].y : k \in DOMAIN points}) - MinOf({points[k].y : k \in DOMAIN points}))

(* The points parsed from the items of the run *)
ItemPoints ==
    UNION {{itemHeap[p].nearnessTags[t] : t \in DOMAIN itemHeap[p].nearnessTags} :
              p \in DOMAIN itemHeap}

(* The sequences of at most MaxItems of them *)
PointSeqs == UNION {[1..n -> ItemPoints] : n \in 0..MaxItems}

C27_DigestSound ==
    (strategy = "b" /\ ~HasActiveRelationship) =>
        LET r == PopulatedRunner IN
        \A s1 \in HeldStates : \A s2 \in HeldStates :
            (/\ IsTerminal(s1)
             /\ IsTerminal(s2)
             /\ StateDigest(strategy, r.heap, s1) = StateDigest(strategy, r.heap, s2)) =>
                /\ CalculateScore(r, s1) = CalculateScore(r, s2)
                /\ BelowMinSize(s1) = BelowMinSize(s2)

(* C28: revision "b" returns a local optimum.  When a run that was never   *)
(* cancelled has returned, no single relocate and no single swap of the    *)
(* returned arrangement has a strictly higher CalculateScore.              *)
C28_LocalOptimum ==
    (strategy = "b" /\ pc = "done" /\ ~ctxDone /\ ~result.nil) =>
        LET r == PopulatedRunner IN
        \A n \in NeighboursOf(bestState) :
            ~FGt(CalculateScore(r, n), CalculateScore(r, bestState))

(* C29: feasibility is found when it exists.  When the input has a         *)
(* feasible complete arrangement, a run that was never cancelled and has   *)
(* returned has returned groups that hold at most MaxSize items and, when  *)
(* not empty, at least MinSize items.                                      *)
C29_FeasibilityFound ==
    (pc = "done" /\ ~ctxDone /\ FeasibleArrangements # {}) =>
        /\ ~result.nil
        /\ WithinMaxSize(result.Groups)
        /\ ~BelowMinSize([Groups |-> result.Groups, ItemsNotInGroups |-> <<>>, Score |-> 0])

(* C30: no division by zero in nearness scoring.  Every value that         *)
(* maxDistributionForTag has returned to a score computation of the run,   *)
(* where it is the divisor of a group's spread, is strictly positive.      *)
C30_DivisorPositive ==
    \A t \in DOMAIN maxDistributionByTagName : maxDistributionByTagName[t] > 0

====
